---- MODULE Spec2Model ----
(***************************************************************************)
(* Model of stac_tiler.reader: the STACReader facade, its asset selector   *)
(* (_get_assets), asset resolver (_get_href), expression parser            *)
(* (_parse_expression), the thread-pool fan-out (_tile, _part, _preview,   *)
(* _point, _stats, _info, _metadata) and the result merger.                *)
(*                                                                         *)
(* Strings that the code inspects character by character (asset names and  *)
(* band-math expressions) are sequences of one-character strings.          *)
(* Optional[X] is a set with at most one element: None is {} and a given   *)
(* value x is {x}.                                                         *)
(***************************************************************************)
EXTENDS Integers, Sequences, FiniteSets, TLC

VARIABLES
    item,                 \* self.item["assets"]: sequence of asset descriptors
    include_assets,       \* constructor field, Optional[Set[str]]
    exclude_assets,       \* constructor field, Optional[Set[str]]
    include_asset_types,  \* constructor field, Optional[Set[str]]
    exclude_asset_types,  \* constructor field, Optional[Set[str]]
    scope,                \* position of the reader in its with-block
    assets,               \* self.assets, set by __enter__
    call,                 \* arguments and locals of the facade call in progress
    pc,                   \* position of the calling thread inside the facade call
    fs,                   \* state of the future of each submitted worker
    res,                  \* value returned by each finished worker
    collected,            \* results yielded so far by the executor.map iterator
    completed,            \* indexes of the workers in the order they finished
    opened,               \* number of COGReader instances entered by this call
    outcome               \* what the facade call handed back to its caller

vars == <<item, include_assets, exclude_assets, include_asset_types,
          exclude_asset_types, scope, assets, call, pc, fs, res, collected,
          completed, opened, outcome>>

config == <<item, include_assets, exclude_assets, include_asset_types,
            exclude_asset_types>>

(***************************************************************************)
(* Bounds of the model.                                                    *)
(***************************************************************************)
MaxItemLen == 2     \* assets in a catalog item drawn for the selector
MaxTokens == 2      \* asset names in an expression drawn for the parser
MaxReq == 3         \* asset names in an explicit request
NPix == 2           \* pixels of a tile

(***************************************************************************)
(* Python values.                                                          *)
(***************************************************************************)
None == {}

Some(x) == {x}

Val(opt) == CHOOSE x \in opt : TRUE

\* truth value of an Optional[Set]: None and the empty set are both falsy
Truthy(opt) == opt # None /\ Val(opt) # {}

Range(s) == {s[i] : i \in 1..Len(s)}

\* code points of the characters the model uses
Ord(c) ==
    CASE c = " " -> 32
      [] c = "+" -> 43
      [] c = "," -> 44
      [] c = "/" -> 47
      [] c = "0" -> 48
      [] c = "1" -> 49
      [] c = "2" -> 50
      [] c = "B" -> 66
      [] c = "T" -> 84

RECURSIVE StrLess(_, _)
\* a < b on Python str: lexicographic by code point, a proper prefix is smaller
StrLess(a, b) ==
    IF b = <<>> THEN FALSE
    ELSE IF a = <<>> THEN TRUE
    ELSE IF Ord(Head(a)) # Ord(Head(b)) THEN Ord(Head(a)) < Ord(Head(b))
    ELSE StrLess(Tail(a), Tail(b))

RECURSIVE Flatten(_)
Flatten(ss) == IF ss = <<>> THEN <<>> ELSE Head(ss) \o Flatten(Tail(ss))

RECURSIVE Join(_, _)
\* sep.join(ss)
Join(sep, ss) ==
    IF ss = <<>> THEN <<>>
    ELSE IF Len(ss) = 1 THEN ss[1]
    ELSE ss[1] \o sep \o Join(sep, Tail(ss))

\* the sequences without repetition over the elements of S, up to length n
DistinctSeqs(S, n) ==
    {s \in UNION {[1..k -> S] : k \in 0..n} :
        \A i, j \in 1..Len(s) : i # j => s[i] # s[j]}

\* the orderings of the finite set S
Perms(S) == {s \in [1..Cardinality(S) -> S] : Range(s) = S}

(***************************************************************************)
(* Asset names and media types.                                            *)
(***************************************************************************)
nT == <<"T">>
nB1 == <<"B", "1">>
nB10 == <<"B", "1", "0">>
n0B1 == <<"0", "B", "1">>
nB2 == <<"B", "2">>

TIFF == "image/tiff"
PNG == "image/png"

DEFAULT_VALID_TYPE ==
    {"image/tiff; application=geotiff",
     "image/tiff; application=geotiff; profile=cloud-optimized",
     "image/vnd.stac.geotiff; cloud-optimized=true",
     "image/tiff",
     "image/x.geotiff",
     "image/jp2",
     "application/x-hdf5",
     "application/x-hdf"}

Href(name) == <<"href">> \o name

Asset(name, type) == [name |-> name, type |-> type, href |-> Href(name)]

(***************************************************************************)
(* Asset selector.                                                         *)
(***************************************************************************)
\* the loop body without its first test, `exclude and asset in exclude`
Rejected_no_exclude(a, include, exclude, inc_types, exc_types) ==
    \/ (Truthy(exc_types) /\ a.type \in Val(exc_types))
         \/ (Truthy(include) /\ a.name \notin Val(include))
    \/ (Truthy(inc_types) /\ a.type \notin Val(inc_types))
         \/ (Truthy(include) /\ a.name \notin Val(include))

\* the loop body without the test of include_asset_types
Rejected_no_types(a, include, exclude, inc_types, exc_types) ==
    \/ Truthy(exclude) /\ a.name \in Val(exclude)
    \/ (Truthy(exc_types) /\ a.type \in Val(exc_types))
         \/ (Truthy(include) /\ a.name \notin Val(include))
    \/ Truthy(include) /\ a.name \notin Val(include)

\* the three `continue` tests of the loop body, for one asset
Rejected(a, include, exclude, inc_types, exc_types) ==
    \/ Truthy(exclude) /\ a.name \in Val(exclude)
    \/ (Truthy(exc_types) /\ a.type \in Val(exc_types))
         \/ (Truthy(include) /\ a.name \notin Val(include))
    \/ (Truthy(inc_types) /\ a.type \notin Val(inc_types))
         \/ (Truthy(include) /\ a.name \notin Val(include))

RECURSIVE _get_assets(_, _, _, _, _)
_get_assets(it, include, exclude, inc_types, exc_types) ==
    IF it = <<>> THEN <<>>
    ELSE LET rest == _get_assets(Tail(it), include, exclude, inc_types, exc_types)
         IN IF Rejected(Head(it), include, exclude, inc_types, exc_types)
            THEN rest
            ELSE <<Head(it).name>> \o rest

(***************************************************************************)
(* Expression parser.                                                      *)
(***************************************************************************)
RECURSIVE Split(_, _)
\* s.split(sep) for a one-character separator
Split(s, sep) ==
    IF \A i \in 1..Len(s) : s[i] # sep THEN <<s>>
    ELSE LET k == CHOOSE i \in 1..Len(s) :
                      s[i] = sep /\ \A j \in 1..(i - 1) : s[j] # sep
         IN <<SubSeq(s, 1, k - 1)>> \o Split(SubSeq(s, k + 1, Len(s)), sep)

RECURSIVE Strip(_)
\* s.strip()
Strip(s) ==
    IF s = <<>> THEN s
    ELSE IF Head(s) = " " THEN Strip(Tail(s))
    ELSE IF s[Len(s)] = " " THEN Strip(SubSeq(s, 1, Len(s) - 1))
    ELSE s

RECURSIVE SortedAsc(_)
\* sorted(names) of a list of distinct strings
SortedAsc(names) ==
    IF names = <<>> THEN <<>>
    ELSE LET m == CHOOSE x \in Range(names) :
                      \A y \in Range(names) : y = x \/ StrLess(x, y)
         IN <<m>> \o SortedAsc(SelectSeq(names, LAMBDA y : y # m))

Reverse(s) == [i \in 1..Len(s) |-> s[Len(s) + 1 - i]]

\* sorted(names), the reverse=True forgotten
SortedForward(names) == SortedAsc(names)

\* sorted(names, reverse=True)
SortedReverse(names) == Reverse(SortedAsc(names))

\* does alternative alt match the text s at position p (1-based)
MatchesAt(alt, s, p) ==
    /\ p + Len(alt) - 1 <= Len(s)
    /\ SubSeq(s, p, p + Len(alt) - 1) = alt

RECURSIVE FindAllFrom(_, _, _)
\* re.findall for a pattern that is an alternation of literals: at each
\* position the first alternative of the pattern that matches is taken, and
\* the scan resumes after it
FindAllFrom(alts, s, p) ==
    IF p > Len(s) + 1 THEN <<>>
    ELSE LET hits == {k \in 1..Len(alts) : MatchesAt(alts[k], s, p)}
         IN IF hits = {} THEN FindAllFrom(alts, s, p + 1)
            ELSE LET k == CHOOSE h \in hits : \A g \in hits : h <= g
                 IN <<alts[k]>> \o
                      FindAllFrom(alts, s,
                                  IF alts[k] = <<>> THEN p + 1 ELSE p + Len(alts[k]))

\* the set of names _parse_expression finds; the list it returns is this set
\* in the iteration order of a Python set of strings
ParsedNames(known, expression) ==
    LET pattern == Join(<<"|">>, SortedReverse(known))
        _re == Split(pattern, "|")
    IN Range(FindAllFrom(_re, expression, 1))

\* STACReader._parse_expression: every list the call can return
_parse_expression(known, expression) == Perms(ParsedNames(known, expression))

(***************************************************************************)
(* Asset resolver.                                                         *)
(***************************************************************************)
\* self.item["assets"][asset]["href"]
HrefOf(it, name) == (CHOOSE a \in Range(it) : a.name = name).href

\* _get_href validating against the asset map of the item, not self.assets
_get_href_catalog(names, eligible, it) ==
    LET bad == {i \in 1..Len(names) : \A a \in Range(it) : a.name # names[i]}
    IN IF bad # {}
       THEN [ok |-> FALSE,
             asset |-> names[CHOOSE i \in bad : \A j \in bad : i <= j]]
       ELSE [ok |-> TRUE,
             urls |-> [i \in 1..Len(names) |-> HrefOf(it, names[i])]]

\* STACReader._get_href: the first requested name that is not in self.assets
\* raises InvalidBandName, otherwise one href per requested name, in order
_get_href(names, eligible, it) ==
    LET bad == {i \in 1..Len(names) : names[i] \notin Range(eligible)}
    IN IF bad # {}
       THEN [ok |-> FALSE,
             asset |-> names[CHOOSE i \in bad : \A j \in bad : i <= j]]
       ELSE [ok |-> TRUE,
             urls |-> [i \in 1..Len(names) |-> HrefOf(it, names[i])]]

(***************************************************************************)
(* Single-raster reads, as the workers see them.                           *)
(***************************************************************************)
MAX_THREADS == 2

PixelOps == {"tile", "part", "preview"}

ExprOps == PixelOps \cup {"point"}

DictOps == {"stats", "info", "metadata"}

\* bands stored in the raster behind a location
RasterBands(url) == IF url = Href(nB10) THEN 2 ELSE 1

\* band indexes a read returns: the pass-through option `indexes` when the
\* caller gave one, all the bands of the raster otherwise
ReadIndexes(url, indexes) ==
    IF indexes # None THEN Val(indexes)
    ELSE [b \in 1..RasterBands(url) |-> b]

\* the band axis of what cog.tile / cog.part / cog.preview / cog.point return
ReadData(url, indexes) ==
    LET ix == ReadIndexes(url, indexes)
    IN [b \in 1..Len(ix) |-> [href |-> url, bidx |-> ix[b]]]

Masks == [1..NPix -> {0, 255}]

\* every value the read of one location can return for an operation
ReadResults(op, url, indexes) ==
    IF op \in PixelOps
    THEN {[data |-> ReadData(url, indexes), mask |-> m] : m \in Masks}
    ELSE IF op = "point"
    THEN {ReadData(url, indexes)}
    ELSE {[href |-> url, of |-> op]}

(***************************************************************************)
(* Result merger.                                                          *)
(***************************************************************************)
\* the per-asset arrays joined last asset first
ConcatenateReversed(results) ==
    Flatten([i \in 1..Len(results) |-> results[Len(results) + 1 - i].data])

\* numpy.concatenate(data): the per-asset arrays joined along the band axis
Concatenate(results) == Flatten([i \in 1..Len(results) |-> results[i].data])

\* numpy.any(masks, axis=0).astype(numpy.uint8) * 255
AnyMasks(results) ==
    [p \in 1..NPix |->
        IF \E i \in 1..Len(results) : results[i].mask[p] # 0 THEN 255 ELSE 0]

\* numpy.all(masks, axis=0).astype(numpy.uint8) * 255
AllMasks(results) ==
    [p \in 1..NPix |->
        IF \A i \in 1..Len(results) : results[i].mask[p] # 0 THEN 255 ELSE 0]

\* dict(zip(bands, data)): pairs up to the shorter of the two, a repeated
\* name keeps its last pairing
Zip(bands, data) ==
    LET n == IF Len(bands) < Len(data) THEN Len(bands) ELSE Len(data)
    IN [nm \in {bands[i] : i \in 1..n} |->
           data[CHOOSE i \in 1..n :
                   bands[i] = nm /\ \A j \in 1..n : bands[j] = nm => j <= i]]

Operators == {"/", "+"}

RECURSIVE Identifiers(_)
\* the variable names numexpr finds in one sub-expression
Identifiers(bloc) ==
    IF \A i \in 1..Len(bloc) : bloc[i] \notin Operators
    THEN IF bloc = <<>> THEN {} ELSE {bloc}
    ELSE LET k == CHOOSE i \in 1..Len(bloc) : bloc[i] \in Operators
         IN Identifiers(SubSeq(bloc, 1, k - 1))
              \cup Identifiers(SubSeq(bloc, k + 1, Len(bloc)))

\* numexpr.evaluate(bloc.strip(), local_dict=data) succeeds when the
\* sub-expression is not empty and every variable is bound
Evaluable(bloc, local_dict) ==
    /\ Strip(bloc) # <<>>
    /\ Identifiers(Strip(bloc)) \subseteq DOMAIN local_dict

\* one evaluated sub-expression: its text and the data each variable stood for
Evaluate(bloc, local_dict) ==
    [expr |-> Strip(bloc),
     of |-> [nm \in Identifiers(Strip(bloc)) |-> local_dict[nm]]]

\* _apply_expression handing back the stacked array it was given
_apply_expression_stack(blocks, bands, data) == [ok |-> TRUE, data |-> data]

\* _apply_expression
_apply_expression(blocks, bands, data) ==
    LET local_dict == Zip(bands, data)
    IN IF \A i \in 1..Len(blocks) : Evaluable(blocks[i], local_dict)
       THEN [ok |-> TRUE,
             data |-> [i \in 1..Len(blocks) |-> Evaluate(blocks[i], local_dict)]]
       ELSE [ok |-> FALSE]

(***************************************************************************)
(* The facade: lifecycle.                                                  *)
(***************************************************************************)
NoCall == [op |-> "none"]

NoOutcome == [kind |-> "none"]

Error(e) == [kind |-> "error", error |-> e]

Idle ==
    /\ call = NoCall
    /\ pc = "idle"
    /\ fs = <<>>
    /\ res = <<>>
    /\ collected = <<>>
    /\ completed = <<>>
    /\ opened = 0
    /\ outcome = NoOutcome

\* STACReader.__enter__: the item is already parsed; computes self.assets
Enter ==
    /\ scope = "Unopened"
    /\ pc = "idle"
    /\ scope' = "Open"
    /\ assets' = _get_assets(item, include_assets, exclude_assets,
                             include_asset_types, exclude_asset_types)
    /\ UNCHANGED <<config, call, pc, fs, res, collected, completed, opened,
                   outcome>>

\* STACReader.__exit__: `pass`, nothing is dropped
Exit ==
    /\ scope = "Open"
    /\ pc = "idle"
    /\ scope' = "Closed"
    /\ UNCHANGED <<config, assets, call, pc, fs, res, collected, completed,
                   opened, outcome>>

(***************************************************************************)
(* The facade: operations.  A call runs in the calling thread up to the    *)
(* point where it either raises or has submitted one worker per location.  *)
(***************************************************************************)
ArgNone == [kind |-> "none"]

ArgStr(name) == [kind |-> "str", value |-> name]

ArgList(names) == [kind |-> "list", value |-> names]

\* `if isinstance(assets, str): assets = (assets,)`
Normalise(arg) ==
    IF arg.kind = "str" THEN <<arg.value>>
    ELSE IF arg.kind = "list" THEN arg.value
    ELSE <<>>

\* the call raises before any worker exists
Raises(op, arg, expression, indexes, names, e) ==
    /\ call' = [op |-> op, arg |-> arg, expression |-> expression,
                indexes |-> indexes, assets |-> names, urls |-> <<>>]
    /\ outcome' = Error(e)
    /\ pc' = "returned"
    /\ UNCHANGED <<config, scope, assets, fs, res, collected, completed, opened>>

\* ThreadPoolExecutor(...).map(worker, asset_urls): one future per location
Submits(op, arg, expression, indexes, names, urls) ==
    /\ call' = [op |-> op, arg |-> arg, expression |-> expression,
                indexes |-> indexes, assets |-> names, urls |-> urls]
    /\ fs' = [i \in 1..Len(urls) |-> "pending"]
    /\ res' = [i \in 1..Len(urls) |-> <<>>]
    /\ collected' = <<>>
    /\ completed' = <<>>
    /\ opened' = 0
    /\ pc' = "map"
    /\ UNCHANGED <<config, scope, assets, outcome>>

\* the part common to the bodies of the seven operations, from the resolved
\* local `assets` on
Resolves(op, arg, expression, indexes, names) ==
    IF scope = "Unopened"
    THEN Raises(op, arg, expression, indexes, names, "AttributeError")
    ELSE LET r == _get_href(names, assets, item)
         IN IF r.ok
            THEN Submits(op, arg, expression, indexes, names, r.urls)
            ELSE Raises(op, arg, expression, indexes, names, "InvalidBandName")

\* the `if not assets:` test left out
NoAssetsUnchecked(names) == FALSE

\* `if not assets:` holds for None and for an empty sequence
NoAssets(names) == names = <<>>

\* tile, part, preview and point up to the fan-out
ExprCall(op, arg, expression, indexes) ==
    /\ pc = "idle"
    /\ outcome = NoOutcome
    /\ IF expression # <<>> /\ scope = "Unopened"
       THEN Raises(op, arg, expression, indexes, Normalise(arg), "AttributeError")
       ELSE \E names \in IF expression # <<>>
                         THEN _parse_expression(assets, expression)
                         ELSE {Normalise(arg)} :
              IF NoAssets(names)
              THEN Raises(op, arg, expression, indexes, names, "Exception")
              ELSE Resolves(op, arg, expression, indexes, names)

\* stats, info and metadata up to the fan-out
DictCall(op, arg) ==
    /\ pc = "idle"
    /\ outcome = NoOutcome
    /\ arg.kind # "none"
    /\ IF Normalise(arg) = <<>>
       THEN Submits(op, arg, <<>>, None, <<>>, <<>>)
       ELSE Resolves(op, arg, <<>>, None, Normalise(arg))

\* the inputs the model draws for the calls
ReqNames == {nT, nB1, nB10}

Args ==
    {ArgNone, ArgStr(nB1), ArgStr(nB2), ArgList(<<nB1, nB2>>), ArgList(<<nB1, nB1>>)}
      \cup {ArgList(l) : l \in DistinctSeqs(ReqNames, MaxReq)}

Expressions ==
    {nB1,
     nB10 \o <<"/">> \o nB1,
     nB1 \o <<",", " ">> \o nB10,
     nT \o <<"+">> \o nB10,
     nB1 \o <<",">>}

\* explicit names given together with an expression
ArgsWithExpression == {ArgNone, ArgStr(nB2), ArgList(<<nB1>>)}

IndexOptions == {None, Some(<<1, 1>>)}

ExprInputs ==
    (Args \X {<<>>} \X IndexOptions)
      \cup (ArgsWithExpression \X Expressions \X IndexOptions)

Tile == \E in \in ExprInputs : ExprCall("tile", in[1], in[2], in[3])

Part == \E in \in ExprInputs : ExprCall("part", in[1], in[2], in[3])

Preview == \E in \in ExprInputs : ExprCall("preview", in[1], in[2], in[3])

Point == \E in \in ExprInputs : ExprCall("point", in[1], in[2], in[3])

Stats == \E arg \in Args : DictCall("stats", arg)

Info == \E arg \in Args : DictCall("info", arg)

Metadata == \E arg \in Args : DictCall("metadata", arg)

(***************************************************************************)
(* Fan-out executor: the worker threads.                                   *)
(***************************************************************************)
Running == {i \in 1..Len(fs) : fs[i] = "reading"}

\* a pool thread takes the oldest queued work item and enters COGReader
WorkerStart(i) ==
    /\ pc \in {"map", "shutdown"}
    /\ fs[i] = "pending"
    /\ \A j \in 1..(i - 1) : fs[j] # "pending"
    /\ Cardinality(Running) < MAX_THREADS
    /\ fs' = [fs EXCEPT ![i] = "reading"]
    /\ opened' = opened + 1
    /\ UNCHANGED <<config, scope, assets, call, pc, res, collected, completed,
                   outcome>>

\* COGReader.__enter__ raises: the worker ends without an open reader
WorkerOpenFail(i) ==
    /\ pc \in {"map", "shutdown"}
    /\ fs[i] = "pending"
    /\ \A j \in 1..(i - 1) : fs[j] # "pending"
    /\ Cardinality(Running) < MAX_THREADS
    /\ fs' = [fs EXCEPT ![i] = "failed"]
    /\ completed' = Append(completed, i)
    /\ UNCHANGED <<config, scope, assets, call, pc, res, collected, opened,
                   outcome>>

\* the read returns; leaving the with-block closes the reader
WorkerFinish(i) ==
    /\ pc \in {"map", "shutdown"}
    /\ fs[i] = "reading"
    /\ \E r \in ReadResults(call.op, call.urls[i], call.indexes) :
          res' = [res EXCEPT ![i] = r]
    /\ fs' = [fs EXCEPT ![i] = "finished"]
    /\ completed' = Append(completed, i)
    /\ UNCHANGED <<config, scope, assets, call, pc, collected, opened, outcome>>

\* the read raises; leaving the with-block closes the reader
WorkerFail(i) ==
    /\ pc \in {"map", "shutdown"}
    /\ fs[i] = "reading"
    /\ fs' = [fs EXCEPT ![i] = "failed"]
    /\ completed' = Append(completed, i)
    /\ UNCHANGED <<config, scope, assets, call, pc, res, collected, opened,
                   outcome>>

(***************************************************************************)
(* Fan-out executor: the calling thread inside list(executor.map(...)).    *)
(***************************************************************************)
\* the future that finished next, as futures.as_completed would yield
NextCompleted(yielded, done) ==
    IF Len(yielded) < Len(done) THEN done[Len(yielded) + 1] ELSE Len(yielded) + 1

\* the future whose result the iterator of executor.map waits for next
NextFuture(yielded, done) == Len(yielded) + 1

\* fs[n].result() returns
Collect ==
    /\ pc = "map"
    /\ LET n == NextFuture(collected, completed)
       IN /\ n \in 1..Len(fs)
          /\ fs[n] = "finished"
          /\ collected' = Append(collected, res[n])
    /\ UNCHANGED <<config, scope, assets, call, pc, fs, res, completed, opened,
                   outcome>>

\* fs[n].result() raises: the iterator cancels the futures no thread has
\* taken, and the with-block of the executor starts shutdown(wait=True)
Propagate ==
    /\ pc = "map"
    /\ LET n == NextFuture(collected, completed)
       IN /\ n \in 1..Len(fs)
          /\ fs[n] = "failed"
    /\ fs' = [i \in 1..Len(fs) |-> IF fs[i] = "pending" THEN "cancelled" ELSE fs[i]]
    /\ pc' = "shutdown"
    /\ UNCHANGED <<config, scope, assets, call, res, collected, completed,
                   opened, outcome>>

\* executor.shutdown(wait=False) returns at once
JoinedNoWait(futures) == TRUE

\* executor.shutdown(wait=True) returns once no pool thread runs a worker
Joined(futures) == \A i \in 1..Len(futures) : futures[i] # "reading"

\* the exception swallowed and the results yielded so far handed back
SurfacesPartial(c, yielded) == [kind |-> "result", data |-> yielded]

\* what leaves the facade call when fs[n].result() raised: that exception
Surfaces(c, yielded) ==
    [kind |-> "error", error |-> "ReadError", url |-> c.urls[Len(yielded) + 1]]

\* shutdown(wait=True) has joined the pool threads: the exception of the
\* failed read leaves the facade call
Raise ==
    /\ pc = "shutdown"
    /\ Joined(fs)
    /\ outcome' = Surfaces(call, collected)
    /\ pc' = "returned"
    /\ UNCHANGED <<config, scope, assets, call, fs, res, collected, completed,
                   opened>>

\* {asset: stats[0] for asset in assets}: every name gets the first result
ByNameFirst(names, results) == [nm \in Range(names) |-> results[1]]

\* {asset: stats[ix] for ix, asset in enumerate(assets)}: a repeated name
\* keeps the result of its last position
ByName(names, results) ==
    [nm \in Range(names) |->
        results[CHOOSE i \in 1..Len(names) :
                   /\ names[i] = nm
                   /\ \A j \in 1..Len(names) : names[j] = nm => j <= i]]

\* what the facade call returns from the collected per-asset results
Result(c, results) ==
    IF c.op \in PixelOps
    THEN LET data == Concatenate(results)
             mask == AllMasks(results)
         IN IF c.expression = <<>>
            THEN [kind |-> "result", data |-> data, mask |-> mask]
            ELSE LET e == _apply_expression(Split(c.expression, ","), c.assets, data)
                 IN IF e.ok
                    THEN [kind |-> "result", data |-> e.data, mask |-> mask]
                    ELSE Error("NumexprError")
    ELSE IF c.op = "point"
    THEN IF c.expression = <<>>
         THEN [kind |-> "result", data |-> results]
         ELSE LET e == _apply_expression(Split(c.expression, ","), c.assets, results)
              IN IF e.ok
                 THEN [kind |-> "result", data |-> e.data]
                 ELSE Error("NumexprError")
    ELSE [kind |-> "result", data |-> ByName(c.assets, results)]

\* every result was yielded: merge, leave the executor, apply the expression
Return ==
    /\ pc = "map"
    /\ Len(collected) = Len(fs)
    /\ outcome' = Result(call, collected)
    /\ pc' = "returned"
    /\ UNCHANGED <<config, scope, assets, call, fs, res, collected, completed,
                   opened>>

\* the caller takes the result or the exception; the locals of the call die
Consume ==
    /\ pc = "returned"
    /\ call' = NoCall
    /\ pc' = "idle"
    /\ fs' = <<>>
    /\ res' = <<>>
    /\ collected' = <<>>
    /\ completed' = <<>>
    /\ opened' = 0
    /\ outcome' = NoOutcome
    /\ UNCHANGED <<config, scope, assets>>

(***************************************************************************)
(* Specification of the reader: a catalog item of three assets, opened     *)
(* under one of four filter configurations.                                *)
(***************************************************************************)
ITEM == <<Asset(nT, PNG), Asset(nB1, TIFF), Asset(nB10, TIFF)>>

Filters(inc, exc, inc_types, exc_types) ==
    [include_assets |-> inc, exclude_assets |-> exc,
     include_asset_types |-> inc_types, exclude_asset_types |-> exc_types]

Configurations ==
    {Filters(None, None, Some(DEFAULT_VALID_TYPE), None),
     Filters(None, None, None, None),
     Filters(None, Some({nB10}), Some(DEFAULT_VALID_TYPE), None),
     Filters(Some({nB2}), None, Some(DEFAULT_VALID_TYPE), None)}

Init ==
    /\ item = ITEM
    /\ \E f \in Configurations :
          /\ include_assets = f.include_assets
          /\ exclude_assets = f.exclude_assets
          /\ include_asset_types = f.include_asset_types
          /\ exclude_asset_types = f.exclude_asset_types
    /\ scope = "Unopened"
    /\ assets = <<>>
    /\ Idle

Next ==
    \/ Enter
    \/ Exit
    \/ Tile
    \/ Part
    \/ Preview
    \/ Point
    \/ Stats
    \/ Info
    \/ Metadata
    \/ \E i \in 1..Len(fs) : WorkerStart(i)
    \/ \E i \in 1..Len(fs) : WorkerOpenFail(i)
    \/ \E i \in 1..Len(fs) : WorkerFinish(i)
    \/ \E i \in 1..Len(fs) : WorkerFail(i)
    \/ Collect
    \/ Propagate
    \/ Raise
    \/ Return
    \/ Consume

Spec == Init /\ [][Next]_vars

(***************************************************************************)
(* Specification of the expression parser: _parse_expression called on an  *)
(* opened reader whose eligible names are drawn from names that overlap.   *)
(***************************************************************************)
ParseNames == {nB1, nB10, n0B1}

ParseItems ==
    {[i \in 1..Len(ns) |-> Asset(ns[i], TIFF)] :
        ns \in DistinctSeqs(ParseNames, Cardinality(ParseNames))}

\* names joined by operators and commas
ParseExpressions ==
    {Flatten([i \in 1..(2 * Len(ts) - 1) |->
                 IF i % 2 = 1 THEN ts[(i + 1) \div 2] ELSE <<os[i \div 2]>>]) :
        <<ts, os>> \in
            {p \in (UNION {[1..k -> ParseNames] : k \in 1..MaxTokens})
                     \X (UNION {[1..k -> Operators \cup {","}] : k \in 0..(MaxTokens - 1)}) :
                Len(p[2]) = Len(p[1]) - 1}}

ParseExpression ==
    /\ pc = "idle"
    /\ outcome = NoOutcome
    /\ scope # "Unopened"
    /\ \E e \in ParseExpressions :
          \E names \in _parse_expression(assets, e) :
             /\ call' = [op |-> "_parse_expression", expression |-> e]
             /\ outcome' = [kind |-> "result", data |-> names]
    /\ pc' = "returned"
    /\ UNCHANGED <<config, scope, assets, fs, res, collected, completed, opened>>

InitParse ==
    /\ item \in ParseItems
    /\ include_assets = None
    /\ exclude_assets = None
    /\ include_asset_types = Some(DEFAULT_VALID_TYPE)
    /\ exclude_asset_types = None
    /\ scope = "Unopened"
    /\ assets = <<>>
    /\ Idle

NextParse == Enter \/ ParseExpression \/ Consume

SpecParse == InitParse /\ [][NextParse]_vars

(***************************************************************************)
(* Specification of the asset selector: every catalog item of at most      *)
(* MaxItemLen assets and every combination of the four filters.            *)
(***************************************************************************)
SelNames == {nT, nB1, nB10}

SelTypes == {TIFF, PNG}

SelItems ==
    {[i \in 1..Len(ns) |-> Asset(ns[i], ts[i])] :
        <<ns, ts>> \in {p \in DistinctSeqs(SelNames, MaxItemLen)
                               \X UNION {[1..k -> SelTypes] : k \in 0..MaxItemLen} :
                          Len(p[1]) = Len(p[2])}}

OptSets(S) == {None} \cup {Some(s) : s \in SUBSET S}

InitSelect ==
    /\ item \in SelItems
    /\ include_assets \in OptSets(SelNames)
    /\ exclude_assets \in OptSets(SelNames)
    /\ include_asset_types \in OptSets(SelTypes) \cup {Some(DEFAULT_VALID_TYPE)}
    /\ exclude_asset_types \in OptSets(SelTypes)
    /\ scope = "Unopened"
    /\ assets = <<>>
    /\ Idle

NextSelect == Enter \/ Exit

SpecSelect == InitSelect /\ [][NextSelect]_vars

(***************************************************************************)
(* Properties.                                                             *)
(***************************************************************************)
\* a facade call has handed its result or its exception to the caller
Returned == pc = "returned" /\ call.op \in ExprOps \cup DictOps

Names(it) == [i \in 1..Len(it) |-> it[i].name]

NoDuplicates(s) == \A i, j \in 1..Len(s) : i # j => s[i] # s[j]

\* C1 as stated: whenever a name the caller requested is not in the Eligible
\* Asset List, the operation ends with InvalidBandName.
C1_UnknownRequestedName ==
    (call.op \in ExprOps \cup DictOps /\ scope # "Unopened"
       /\ \E n \in Range(Normalise(call.arg)) : n \notin Range(assets))
    => (pc = "returned" /\ outcome = Error("InvalidBandName"))

\* C1: on a reader that was opened, whenever a name of the list the operation
\* resolves (the explicit names, or the names parsed from the catalog-level
\* expression when one is given) is not in the Eligible Asset List, the
\* operation ends with InvalidBandName and submits no worker.
C1_UnknownResolvedName ==
    (call.op \in ExprOps \cup DictOps /\ scope # "Unopened"
       /\ \E n \in Range(call.assets) : n \notin Range(assets))
    => (pc = "returned" /\ outcome = Error("InvalidBandName") /\ fs = <<>>)

\* an asset of the catalog that the media-type filter removed is requested
C1_Witness ==
    /\ Returned
    /\ scope = "Open"
    /\ call.expression = <<>>
    /\ \E n \in Range(call.assets) : n \in Range(Names(item)) /\ n \notin Range(assets)
    /\ outcome = Error("InvalidBandName")

\* C2 as stated: a filter restricts the list whenever it is given.
GivenPasses(a) ==
    /\ exclude_assets # None => a.name \notin Val(exclude_assets)
    /\ exclude_asset_types # None => a.type \notin Val(exclude_asset_types)
    /\ include_assets # None => a.name \in Val(include_assets)
    /\ include_asset_types # None => a.type \in Val(include_asset_types)

C2_EligibleWhenGiven ==
    scope # "Unopened"
    => /\ assets = Names(SelectSeq(item, GivenPasses))
       /\ NoDuplicates(assets)

\* C2: the Eligible Asset List is the catalog's names, in catalog order and
\* without duplicates, of the assets whose name is not in exclude, whose type
\* is not in excludeTypes, whose name is in include when include is given and
\* not empty, and whose type is in includeTypes when includeTypes is given
\* and not empty.
NonEmptyPasses(a) ==
    /\ exclude_assets # None => a.name \notin Val(exclude_assets)
    /\ exclude_asset_types # None => a.type \notin Val(exclude_asset_types)
    /\ (include_assets # None /\ Val(include_assets) # {})
         => a.name \in Val(include_assets)
    /\ (include_asset_types # None /\ Val(include_asset_types) # {})
         => a.type \in Val(include_asset_types)

C2_EligibleList ==
    scope # "Unopened"
    => /\ assets = Names(SelectSeq(item, NonEmptyPasses))
       /\ NoDuplicates(assets)

\* all four filters are given, one asset passes and one does not
C2_Witness ==
    /\ scope = "Open"
    /\ include_assets # None /\ Val(include_assets) # {}
    /\ exclude_assets # None /\ Val(exclude_assets) # {}
    /\ include_asset_types # None /\ Val(include_asset_types) # {}
    /\ exclude_asset_types # None /\ Val(exclude_asset_types) # {}
    /\ Len(item) = 2
    /\ assets = <<item[2].name>>

\* C3: tile, part, preview and point called on an Open reader with neither
\* explicit assets nor an expression end with the usage error, and the call
\* opens no per-asset reader.
C3_AssetsMustBeSpecified ==
    (call.op \in ExprOps /\ scope = "Open"
       /\ Normalise(call.arg) = <<>> /\ call.expression = <<>>)
    => (pc = "returned" /\ outcome = Error("Exception")
          /\ opened = 0 /\ fs = <<>>)

C3_Witness ==
    /\ Returned
    /\ call.op = "point"
    /\ scope = "Open"
    /\ call.arg = ArgNone
    /\ call.expression = <<>>
    /\ outcome = Error("Exception")

\* the names that occur in an expression as whole names
WholeNames(e) == UNION {Identifiers(Strip(b)) : b \in Range(Split(e, ","))}

\* C4: for an expression built from known names joined by operators, the
\* parser returns exactly the names that occur in it as whole names, each
\* once, also when one known name is a prefix or a substring of another.
C4_WholeNames ==
    (call.op = "_parse_expression" /\ WholeNames(call.expression) \subseteq Range(assets))
    => /\ Range(outcome.data) = WholeNames(call.expression)
       /\ NoDuplicates(outcome.data)

\* B1 is a prefix of B10 and a substring of 0B1; all three are known
C4_Witness ==
    /\ call.op = "_parse_expression"
    /\ Range(assets) = {nB1, nB10, n0B1}
    /\ call.expression = nB10 \o <<"/">> \o n0B1
    /\ Range(outcome.data) = {nB10, n0B1}

\* C5: the i-th result yielded by the fan-out is a result of the read of the
\* i-th input location, whatever the order in which the workers finished.
C5_InputOrder ==
    call.op \in ExprOps \cup DictOps
    => \A i \in 1..Len(collected) :
          collected[i] \in ReadResults(call.op, call.urls[i], call.indexes)

\* the second worker finished first, both results were yielded
C5_Witness ==
    /\ Returned
    /\ Len(collected) = 2
    /\ call.urls[1] # call.urls[2]
    /\ completed = <<2, 1>>
    /\ outcome.kind = "result"

\* C6: the merged mask of tile, part and preview is 255 at a pixel when every
\* per-asset mask is valid there, and 0 when any one is not.
C6_MaskAnd ==
    (Returned /\ call.op \in PixelOps /\ outcome.kind = "result")
    => \A p \in 1..NPix :
          outcome.mask[p] =
             IF \E i \in 1..Len(collected) : collected[i].mask[p] # 255
             THEN 0 ELSE 255

\* one asset marks the pixel valid, another marks it invalid
C6_Witness ==
    /\ Returned
    /\ call.op = "part"
    /\ outcome.kind = "result"
    /\ Len(collected) = 2
    /\ collected[1].mask[1] = 255
    /\ collected[2].mask[1] = 0
    /\ outcome.mask[1] = 0

RECURSIVE BandsBefore(_, _)
\* number of bands of the first i per-asset results
BandsBefore(results, i) ==
    IF i = 0 THEN 0 ELSE BandsBefore(results, i - 1) + Len(results[i].data)

\* C7: without a catalog-level expression, the array of tile, part and
\* preview is the bands of the requested assets, asset after asset in the
\* order of the request; its band count is the sum of theirs.
C7_BandOrder ==
    (Returned /\ call.op \in PixelOps /\ outcome.kind = "result"
       /\ call.expression = <<>>)
    => /\ Len(outcome.data) = BandsBefore(collected, Len(collected))
       /\ \A i \in 1..Len(call.assets) :
             LET own == ReadData(HrefOf(item, call.assets[i]), call.indexes)
             IN \A b \in 1..Len(own) :
                   outcome.data[BandsBefore(collected, i - 1) + b] = own[b]

\* the two-band B10 is requested before the one-band B1
C7_Witness ==
    /\ Returned
    /\ call.op = "tile"
    /\ outcome.kind = "result"
    /\ call.expression = <<>>
    /\ call.assets = <<nB10, nB1>>
    /\ call.indexes = None
    /\ Len(outcome.data) = 3

C9_FailurePropagates ==
    (Returned /\ \E i \in 1..Len(fs) : fs[i] = "failed")
    => /\ outcome.kind = "error"
       /\ outcome.error = "ReadError"
       /\ \E i \in 1..Len(fs) : fs[i] = "failed" /\ outcome.url = call.urls[i]

\* the first read succeeded and was yielded, the second failed
C9_Witness ==
    /\ Returned
    /\ call.op = "stats"
    /\ Len(fs) = 2
    /\ fs[1] = "finished"
    /\ fs[2] = "failed"
    /\ Len(collected) = 1
    /\ outcome.kind = "error"

\* C10: when the operation hands its result or its exception to the caller,
\* no per-asset reader of the call is open and no worker of the call is
\* running or still to run.
C10_NoLeak ==
    Returned
    => \A i \in 1..Len(fs) : fs[i] \in {"finished", "failed", "cancelled"}

\* the first read failed while the second was in flight; the second ended
\* before the failure reached the caller
C10_Witness ==
    /\ Returned
    /\ outcome.kind = "error"
    /\ opened = 2
    /\ completed = <<1, 2>>
    /\ fs[1] = "failed"
    /\ fs[2] = "finished"

\* C11: stats, info and metadata called with valid names return a mapping
\* whose keys are the requested names and whose value for a name is the
\* result of that operation on the location of that asset, as the read
\* returned it.
C11_MappingByName ==
    (Returned /\ call.op \in DictOps /\ outcome.kind = "result")
    => /\ DOMAIN outcome.data = Range(call.assets)
       /\ \A nm \in Range(call.assets) :
             outcome.data[nm] = [href |-> HrefOf(item, nm), of |-> call.op]

\* two assets, the second worker finished first
C11_Witness ==
    /\ Returned
    /\ call.op = "metadata"
    /\ outcome.kind = "result"
    /\ call.assets = <<nB10, nB1>>
    /\ completed = <<2, 1>>
    /\ DOMAIN outcome.data = {nB1, nB10}

\* an asset of the catalog whose media type is not in the default set
Auxiliary(nm) ==
    \E a \in Range(item) : a.name = nm /\ a.type \notin DEFAULT_VALID_TYPE

\* C12 as stated: with the default media-type set, an auxiliary asset is not
\* in the Eligible Asset List, and an operation that requests it by name
\* resolves its location instead of failing as unknown.
C12_AuxiliaryResolvable ==
    (scope = "Open" /\ include_asset_types = Some(DEFAULT_VALID_TYPE))
    => /\ \A nm \in Range(assets) : ~Auxiliary(nm)
       /\ (call.op \in ExprOps \cup DictOps /\ call.expression = <<>>
             /\ call.assets # <<>> /\ \A nm \in Range(call.assets) : Auxiliary(nm))
          => outcome # Error("InvalidBandName")

\* C12: with the default media-type set, an auxiliary asset is not in the
\* Eligible Asset List, and an operation that requests it by name fails with
\* InvalidBandName without resolving its location.
C12_AuxiliaryUnknown ==
    (scope = "Open" /\ include_asset_types = Some(DEFAULT_VALID_TYPE))
    => /\ \A nm \in Range(assets) : ~Auxiliary(nm)
       /\ (call.op \in ExprOps \cup DictOps /\ call.expression = <<>>
             /\ \E nm \in Range(call.assets) : Auxiliary(nm))
          => (outcome = Error("InvalidBandName") /\ call.urls = <<>>)

\* the thumbnail is requested by name from a reader opened with the defaults
C12_Witness ==
    /\ Returned
    /\ scope = "Open"
    /\ include_asset_types = Some(DEFAULT_VALID_TYPE)
    /\ include_assets = None
    /\ exclude_assets = None
    /\ call.op = "info"
    /\ call.arg = ArgList(<<nT>>)
    /\ nT \notin Range(assets)
    /\ outcome = Error("InvalidBandName")

\* C13: when the Eligible Asset List is empty, the Expression Parser returns
\* no name, whatever the expression.
C13_EmptyKnownNames ==
    (call.op = "_parse_expression" /\ assets = <<>>)
    => outcome.data = <<>>

\* C14: when tile, part or preview applies a catalog-level expression, every
\* name of a sub-expression stands for a band read from the location of the
\* asset of that name.
C14_OwnData ==
    (Returned /\ call.op \in PixelOps /\ outcome.kind = "result"
       /\ call.expression # <<>>)
    => \A b \in 1..Len(outcome.data) :
          \A nm \in DOMAIN outcome.data[b].of :
             outcome.data[b].of[nm].href = HrefOf(item, nm)

\* C15: a facade operation that names assets, issued before the reader was
\* opened or after it was closed, submits no per-asset read and returns no
\* result.
C15_OnlyWhileOpen ==
    (call.op \in ExprOps \cup DictOps /\ scope # "Open"
       /\ (Normalise(call.arg) # <<>> \/ call.expression # <<>>))
    => (fs = <<>> /\ outcome.kind # "result")

====
